---- MODULE Spec2Model ----
(***************************************************************************)
(* Model of the GetScraping node client (src/src/client.ts): the scrape    *)
(* call, request(), and the fetchRetry loop, run against a transport whose *)
(* outcome for every physical attempt is fixed when the call starts.       *)
(*                                                                         *)
(* Optional JavaScript values are sets of at most one element: {} is       *)
(* undefined/null, {x} is the value x.  JavaScript numbers are records     *)
(* [nan, v] so that Math.max and the comparisons keep their NaN behaviour. *)
(***************************************************************************)
EXTENDS Integers, Sequences, FiniteSets, TLC

\* ---------------------------------------------------------------- bounds
MaxRetries == 3
NumCalls == 2

ScriptLen == MaxRetries + 1
Calls == 1..NumCalls

\* ------------------------------------------------------ JavaScript numbers
Num(n) == [nan |-> FALSE, v |-> n]
NaN == [nan |-> TRUE, v |-> 0]

\* ToNumber of an optional number: undefined converts to NaN
ToNumber(opt) == IF opt = {} THEN NaN ELSE Num(CHOOSE x \in opt : TRUE)

MathMaxNoFloor(a, b) == a

\* Math.max(a, b): NaN if either argument is NaN
MathMax(a, b) ==
    IF a.nan \/ b.nan THEN NaN
    ELSE IF a.v >= b.v THEN a ELSE b

\* retriesRemaining > 0  (false for NaN)
LoopCond(rr) == ~rr.nan /\ rr.v > 0

ShouldThrowEarly(rr) == ~rr.nan /\ rr.v <= 2

\* retriesRemaining <= 1  (false for NaN)
ShouldThrow(rr) == ~rr.nan /\ rr.v <= 1

DecrementForgotten(rr) == rr

\* retriesRemaining -= 1
Decrement(rr) == IF rr.nan THEN NaN ELSE Num(rr.v - 1)

\* ------------------------------------------------------------- parameters
Statuses == {200, 303}
StatusCodeSets == {{200}}
Selectors == {"#ok"}
NumRetriesValues == (-1)..MaxRetries

RetryConfigs ==
    [num_retries : {{}} \cup {{n} : n \in NumRetriesValues},
     success_status_codes : {{}} \cup {{s} : s \in StatusCodeSets},
     success_selector : {{}} \cup {{s} : s \in Selectors}]

Urls == {"", "https://example.com"}
JavascriptRenderingOptions == {[screenshot |-> TRUE]}

GetScrapingParams ==
    [url : {{}} \cup {{u} : u \in Urls},
     method : {"GET"},
     js_rendering_options : {{}} \cup {{j} : j \in JavascriptRenderingOptions},
     omit_default_headers : {{}, {TRUE}},
     retry_config : {{}} \cup {{r} : r \in RetryConfigs}]

NoParams ==
    [url |-> {}, method |-> "GET", js_rendering_options |-> {},
     omit_default_headers |-> {}, retry_config |-> {}]

\* ------------------------------------------------------------ JSON.stringify
\* The text is a sequence of tokens.  A property whose value is undefined is
\* left out; numbers and booleans are written in their text form.
JsonBool(b) == IF b THEN <<"true">> ELSE <<"false">>
JsonNumber(n) == <<ToString(n)>>
JsonString(str) == <<"\"", str, "\"">>

RECURSIVE JsonArrayItems(_)
JsonArrayItems(S) ==
    IF S = {} THEN <<>>
    ELSE LET m == CHOOSE x \in S : \A y \in S : x <= y
         IN  JsonNumber(m) \o JsonArrayItems(S \ {m})
JsonArray(S) == <<"[">> \o JsonArrayItems(S) \o <<"]">>

\* "key": value, or nothing when the property is undefined; texts holds the
\* text of the value when there is one
JsonProperty(key, texts) ==
    IF texts = {} THEN <<>> ELSE <<key, ":">> \o (CHOOSE t \in texts : TRUE)

StringifyJsOptions(j) ==
    <<"{", "screenshot", ":">> \o JsonBool(j.screenshot) \o <<"}">>

StringifyRetryConfig(r) ==
    <<"{">>
    \o JsonProperty("num_retries", {JsonNumber(n) : n \in r.num_retries})
    \o JsonProperty("success_status_codes",
                     {JsonArray(S) : S \in r.success_status_codes})
    \o JsonProperty("success_selector",
                     {JsonString(x) : x \in r.success_selector})
    \o <<"}">>

\* JSON.stringify(params)
Stringify(p) ==
    <<"{">>
    \o JsonProperty("url", {JsonString(u) : u \in p.url})
    \o <<"method", ":">> \o JsonString(p.method)
    \o JsonProperty("js_rendering_options",
                     {StringifyJsOptions(j) : j \in p.js_rendering_options})
    \o JsonProperty("omit_default_headers",
                     {JsonBool(b) : b \in p.omit_default_headers})
    \o JsonProperty("retry_config",
                     {StringifyRetryConfig(r) : r \in p.retry_config})
    \o <<"}">>

\* ------------------------------------------------------------------ client
ApiUrl == "https://deployment.example"
ApiKey == "YOUR_API_KEY"

\* the argument lists the client is constructed with: (api_url, api_key),
\* or the single argument of the README's new GetScrapingClient('YOUR_API_KEY')
ConstructorArgs == {<<ApiUrl, ApiKey>>, <<ApiKey>>}

\* the i-th argument of a call; undefined when it was not passed
Argument(args, i) == IF i <= Len(args) THEN {args[i]} ELSE {}

\* `${value}`: undefined is written "undefined"
TemplateString(opt) == IF opt = {} THEN "undefined" ELSE CHOOSE x \in opt : TRUE

EndpointPlain(url, p) == [base |-> TemplateString(url), path |-> "/scrape"]

\* `${this.api_url}/scrape_with_js` or `${this.api_url}/scrape`
Endpoint(url, p) ==
    IF p.js_rendering_options # {}
    THEN [base |-> TemplateString(url), path |-> "/scrape_with_js"]
    ELSE [base |-> TemplateString(url), path |-> "/scrape"]

\* { method: 'POST', headers: { 'X-API-Key': this.api_key },
\*   body: JSON.stringify(params) }
RequestInit(key, p) ==
    [method |-> "POST",
     headers |-> {<<"X-API-Key", key>>},
     body |-> Stringify(p)]

NoFetchArgs ==
    [input |-> [base |-> "", path |-> ""],
     init |-> [method |-> "", headers |-> {}, body |-> <<>>]]

FetchCallNoInit(a, k) ==
    IF k = 1 THEN a ELSE [a EXCEPT !.init = NoFetchArgs.init]

\* fetch(input, init): what the k-th attempt hands to the transport
FetchCall(a, k) == a

\* ------------------------------------------------------------- transport
\* What the transport does with one physical attempt: reject with an error,
\* or resolve with a response (status, and whether the body holds an
\* element matching "#ok").
TransportError == [err |-> TRUE, status |-> 0, match |-> FALSE]
Outcomes ==
    {TransportError} \cup
    {[err |-> FALSE, status |-> s, match |-> m] : s \in Statuses, m \in BOOLEAN}
Scripts == [1..ScriptLen -> Outcomes]
NoScript == [i \in 1..ScriptLen |-> TransportError]

\* ---------------------------------------------------------------- results
Pending == [kind |-> "pending", attempt |-> 0, status |-> 0, match |-> FALSE]
Undefined == [kind |-> "undefined", attempt |-> 0, status |-> 0, match |-> FALSE]
Thrown(i) == [kind |-> "thrown", attempt |-> i, status |-> 0, match |-> FALSE]
Returned(i, o) ==
    [kind |-> "returned", attempt |-> i, status |-> o.status, match |-> o.match]

VARIABLES
    active,            \* the calls that are made in this run
    inputs,            \* the sets this run draws parameters and outcomes from
    ctor,              \* the arguments the client was constructed with
    api_url,           \* GetScrapingClient.api_url
    api_key,           \* GetScrapingClient.api_key
    pc,                \* where each call is: idle, fetch, plain, sleep, done
    params,            \* the GetScrapingParams of each call
    transport,         \* the transport's outcome for each attempt of a call
    fetchArgs,         \* fetchRetry's input and init
    requests,          \* what each call handed to fetch, in order
    retriesRemaining,  \* fetchRetry's counter
    attempts,          \* physical fetch calls issued so far
    inflight,          \* fetch calls issued and not yet settled
    timers,            \* sleep timers started and not yet fired
    sleeps,            \* sleep(RETRY_DELAY_MS) calls started so far
    caught,            \* the attempt whose error the catch block holds
    result             \* how the promise returned by scrape settled

vars == <<active, inputs, ctor, api_url, api_key, pc, params, transport, fetchArgs,
          requests, retriesRemaining, attempts, inflight, timers, sleeps,
          caught, result>>

client == <<ctor, api_url, api_key>>

\* -------------------------------------------------------------------- Init
\* constructor(api_url, api_key) { this.api_url = api_url; this.api_key = api_key }
Constructor(args) ==
    /\ ctor = args
    /\ api_url = Argument(args, 1)
    /\ api_key = Argument(args, 2)

InitCalls ==
    /\ pc = [c \in Calls |-> "idle"]
    /\ params = [c \in Calls |-> NoParams]
    /\ transport = [c \in Calls |-> NoScript]
    /\ fetchArgs = [c \in Calls |-> NoFetchArgs]
    /\ requests = [c \in Calls |-> <<>>]
    /\ retriesRemaining = [c \in Calls |-> NaN]
    /\ attempts = [c \in Calls |-> 0]
    /\ inflight = [c \in Calls |-> 0]
    /\ timers = [c \in Calls |-> 0]
    /\ sleeps = [c \in Calls |-> 0]
    /\ caught = [c \in Calls |-> 0]
    /\ result = [c \in Calls |-> Pending]

\* one call, on a client constructed as the constructor is declared
Init ==
    /\ active = {1}
    /\ inputs = "full"
    /\ Constructor(<<ApiUrl, ApiKey>>)
    /\ InitCalls

\* every call is made, on one client constructed in either way
InitConcurrent ==
    /\ active = Calls
    /\ inputs = "small"
    /\ \E args \in ConstructorArgs : Constructor(args)
    /\ InitCalls

\* one call, drawn from the inputs that decide how long the loop runs
InitLoop ==
    /\ active = {1}
    /\ inputs = "loop"
    /\ Constructor(<<ApiUrl, ApiKey>>)
    /\ InitCalls

\* ------------------------------------------------------------------ inputs
\* A run of one call draws its parameters and its transport from the full
\* sets ("full"); a run of several calls draws them from smaller ones
\* ("small"); a run checked for termination draws every num_retries and
\* every sequence of errors and response statuses ("loop").
ConcurrentParams ==
    {p \in GetScrapingParams :
        /\ p.url = {"https://example.com"}
        /\ p.js_rendering_options = {}
        /\ p.omit_default_headers = {}
        /\ \A r \in p.retry_config :
              /\ r.num_retries \in {{1}, {2}}
              /\ r.success_status_codes = {}
              /\ r.success_selector = {}}

ConcurrentScripts ==
    {t \in Scripts :
        \A i \in 1..ScriptLen :
            /\ t[i].status \in {0, 200}
            /\ ~t[i].match
            /\ i > 2 => t[i].err}

LoopParams ==
    {p \in GetScrapingParams :
        /\ p.url = {"https://example.com"}
        /\ p.js_rendering_options = {}
        /\ p.omit_default_headers = {}
        /\ \A r \in p.retry_config :
              /\ r.success_status_codes = {}
              /\ r.success_selector = {}}

LoopScripts == {t \in Scripts : \A i \in 1..ScriptLen : ~t[i].match}

CallParams ==
    CASE inputs = "full" -> GetScrapingParams
      [] inputs = "small" -> ConcurrentParams
      [] inputs = "loop" -> LoopParams

CallScripts ==
    CASE inputs = "full" -> Scripts
      [] inputs = "small" -> ConcurrentScripts
      [] inputs = "loop" -> LoopScripts

\* ----------------------------------------------------------------- request
HasRetryConfigAlways(p) == TRUE

\* params?.retry_config != null
HasRetryConfig(p) == p.retry_config # {}

\* params?.retry_config?.num_retries
NumRetriesArg(p) ==
    IF p.retry_config = {} THEN {}
    ELSE (CHOOSE r \in p.retry_config : TRUE).num_retries

SharedCounter(c) == 1

\* let retriesRemaining: each invocation of fetchRetry has a counter of its own
CounterOf(c) == c

\* scrape -> request -> (fetchRetry | fetch), up to the first await
Scrape(c) ==
    /\ c \in active
    /\ pc[c] = "idle"
    /\ \E p \in CallParams, t \in CallScripts :
        LET args == [input |-> Endpoint(api_url, p),
                     init |-> RequestInit(api_key, p)]
        IN
        /\ params' = [params EXCEPT ![c] = p]
        /\ transport' = [transport EXCEPT ![c] = t]
        /\ IF HasRetryConfig(p)
           THEN LET rr == MathMax(ToNumber(NumRetriesArg(p)), Num(1)) IN
                /\ fetchArgs' = [fetchArgs EXCEPT ![c] = args]
                /\ retriesRemaining' =
                     [retriesRemaining EXCEPT ![CounterOf(c)] = rr]
                /\ IF LoopCond(rr)
                   THEN /\ pc' = [pc EXCEPT ![c] = "fetch"]
                        /\ attempts' = [attempts EXCEPT ![c] = 1]
                        /\ inflight' = [inflight EXCEPT ![c] = inflight[c] + 1]
                        /\ requests' = [requests EXCEPT ![c] =
                             Append(requests[c], FetchCall(args, 1))]
                        /\ result' = result
                   ELSE /\ pc' = [pc EXCEPT ![c] = "done"]
                        /\ result' = [result EXCEPT ![c] = Undefined]
                        /\ UNCHANGED <<attempts, inflight, requests>>
           ELSE /\ pc' = [pc EXCEPT ![c] = "plain"]
                /\ attempts' = [attempts EXCEPT ![c] = 1]
                /\ inflight' = [inflight EXCEPT ![c] = inflight[c] + 1]
                /\ requests' = [requests EXCEPT ![c] = Append(requests[c], args)]
                /\ UNCHANGED <<fetchArgs, retriesRemaining, result>>
    /\ UNCHANGED <<active, inputs, client, timers, sleeps, caught>>

\* -------------------------------------------------------------- fetchRetry
FetchResponseChecked(c) ==
    /\ pc[c] = "fetch"
    /\ ~transport[c][attempts[c]].err
    /\ pc' = [pc EXCEPT ![c] = "done"]
    /\ inflight' = [inflight EXCEPT ![c] = inflight[c] - 1]
    /\ retriesRemaining' =
         [retriesRemaining EXCEPT ![CounterOf(c)] =
            Decrement(retriesRemaining[CounterOf(c)])]
    /\ result' = [result EXCEPT ![c] =
         IF transport[c][attempts[c]].status = 200
         THEN Returned(attempts[c], transport[c][attempts[c]])
         ELSE Thrown(attempts[c])]
    /\ UNCHANGED <<active, inputs, client, params, transport, fetchArgs, requests,
                   attempts, timers, sleeps, caught>>

FetchResponseNoFinally(c) ==
    /\ pc[c] = "fetch"
    /\ ~transport[c][attempts[c]].err
    /\ pc' = [pc EXCEPT ![c] = "done"]
    /\ inflight' = [inflight EXCEPT ![c] = inflight[c] - 1]
    /\ result' = [result EXCEPT ![c] =
         Returned(attempts[c], transport[c][attempts[c]])]
    /\ UNCHANGED <<active, inputs, client, params, transport, fetchArgs, requests,
                   retriesRemaining, attempts, timers, sleeps, caught>>

\* try { return await fetch(input, init) } finally { retriesRemaining -= 1 }
\* with the fetch resolving: any response, whatever its status, is returned
FetchResponse(c) ==
    /\ pc[c] = "fetch"
    /\ ~transport[c][attempts[c]].err
    /\ pc' = [pc EXCEPT ![c] = "done"]
    /\ inflight' = [inflight EXCEPT ![c] = inflight[c] - 1]
    /\ retriesRemaining' =
         [retriesRemaining EXCEPT ![CounterOf(c)] =
            Decrement(retriesRemaining[CounterOf(c)])]
    /\ result' = [result EXCEPT ![c] =
         Returned(attempts[c], transport[c][attempts[c]])]
    /\ UNCHANGED <<active, inputs, client, params, transport, fetchArgs, requests,
                   attempts, timers, sleeps, caught>>

FetchErrorNoAwait(c) ==
    /\ pc[c] = "fetch"
    /\ transport[c][attempts[c]].err
    /\ caught' = [caught EXCEPT ![c] = attempts[c]]
    /\ sleeps' = [sleeps EXCEPT ![c] = sleeps[c] + 1]
    /\ timers' = [timers EXCEPT ![c] = timers[c] + 1]
    /\ retriesRemaining' =
         [retriesRemaining EXCEPT ![CounterOf(c)] =
            Decrement(retriesRemaining[CounterOf(c)])]
    /\ IF ShouldThrow(retriesRemaining[CounterOf(c)])
       THEN /\ pc' = [pc EXCEPT ![c] = "done"]
            /\ inflight' = [inflight EXCEPT ![c] = inflight[c] - 1]
            /\ result' = [result EXCEPT ![c] = Thrown(attempts[c])]
            /\ UNCHANGED <<attempts, requests>>
       ELSE /\ attempts' = [attempts EXCEPT ![c] = attempts[c] + 1]
            /\ requests' = [requests EXCEPT ![c] =
                 Append(requests[c], FetchCall(fetchArgs[c], attempts[c] + 1))]
            /\ UNCHANGED <<pc, inflight, result>>
    /\ UNCHANGED <<active, inputs, client, params, transport, fetchArgs>>

\* catch (err) { await sleep(RETRY_DELAY_MS) ... : the fetch rejected and the
\* timer is started
FetchError(c) ==
    /\ pc[c] = "fetch"
    /\ transport[c][attempts[c]].err
    /\ inflight' = [inflight EXCEPT ![c] = inflight[c] - 1]
    /\ caught' = [caught EXCEPT ![c] = attempts[c]]
    /\ sleeps' = [sleeps EXCEPT ![c] = sleeps[c] + 1]
    /\ timers' = [timers EXCEPT ![c] = timers[c] + 1]
    /\ pc' = [pc EXCEPT ![c] = "sleep"]
    /\ UNCHANGED <<active, inputs, client, params, transport, fetchArgs, requests,
                   retriesRemaining, attempts, result>>

\* ... if (retriesRemaining <= 1) throw err } finally { retriesRemaining -= 1 }
\* once the timer has fired and, when nothing was thrown, the next turn of
\* the while loop
SleepDone(c) ==
    /\ pc[c] = "sleep"
    /\ timers' = [timers EXCEPT ![c] = timers[c] - 1]
    /\ LET rr == Decrement(retriesRemaining[CounterOf(c)]) IN
       /\ retriesRemaining' = [retriesRemaining EXCEPT ![CounterOf(c)] = rr]
       /\ IF ShouldThrow(retriesRemaining[CounterOf(c)])
          THEN /\ pc' = [pc EXCEPT ![c] = "done"]
               /\ result' = [result EXCEPT ![c] = Thrown(caught[c])]
               /\ UNCHANGED <<attempts, inflight, requests>>
          ELSE IF LoopCond(rr)
          THEN /\ pc' = [pc EXCEPT ![c] = "fetch"]
               /\ attempts' = [attempts EXCEPT ![c] = attempts[c] + 1]
               /\ inflight' = [inflight EXCEPT ![c] = inflight[c] + 1]
               /\ requests' = [requests EXCEPT ![c] =
                    Append(requests[c], FetchCall(fetchArgs[c], attempts[c] + 1))]
               /\ result' = result
          ELSE /\ pc' = [pc EXCEPT ![c] = "done"]
               /\ result' = [result EXCEPT ![c] = Undefined]
               /\ UNCHANGED <<attempts, inflight, requests>>
    /\ UNCHANGED <<active, inputs, client, params, transport, fetchArgs, sleeps, caught>>

\* ------------------------------------------------- request without a policy
\* return fetch(url, {...}) resolving
PlainResponse(c) ==
    /\ pc[c] = "plain"
    /\ ~transport[c][attempts[c]].err
    /\ pc' = [pc EXCEPT ![c] = "done"]
    /\ inflight' = [inflight EXCEPT ![c] = inflight[c] - 1]
    /\ result' = [result EXCEPT ![c] =
         Returned(attempts[c], transport[c][attempts[c]])]
    /\ UNCHANGED <<active, inputs, client, params, transport, fetchArgs, requests,
                   retriesRemaining, attempts, timers, sleeps, caught>>

\* return fetch(url, {...}) rejecting
PlainError(c) ==
    /\ pc[c] = "plain"
    /\ transport[c][attempts[c]].err
    /\ pc' = [pc EXCEPT ![c] = "done"]
    /\ inflight' = [inflight EXCEPT ![c] = inflight[c] - 1]
    /\ result' = [result EXCEPT ![c] = Thrown(attempts[c])]
    /\ UNCHANGED <<active, inputs, client, params, transport, fetchArgs, requests,
                   retriesRemaining, attempts, timers, sleeps, caught>>

Next ==
    \E c \in Calls :
        \/ Scrape(c)
        \/ FetchResponse(c)
        \/ FetchError(c)
        \/ SleepDone(c)
        \/ PlainResponse(c)
        \/ PlainError(c)

Spec == Init /\ [][Next]_vars

\* a step the runtime takes for a call that is under way: its fetch settles
\* or its timer fires
Settle(c) ==
    \/ FetchResponse(c)
    \/ FetchError(c)
    \/ SleepDone(c)
    \/ PlainResponse(c)
    \/ PlainError(c)

\* every fetch eventually settles and every timer eventually fires
Fairness == \A c \in Calls : WF_vars(Settle(c))

SpecFair == InitLoop /\ [][Next]_vars /\ Fairness

\* several scrape calls on one client, their steps interleaved, the client
\* constructed from (api_url, api_key) or from an API key alone
SpecConcurrent == InitConcurrent /\ [][Next]_vars

\* ================================================================= claims
\* The retry policy of a call, and what the policy asks of a response.
Cfg(c) == CHOOSE r \in params[c].retry_config : TRUE
WithPolicy(c) == params[c].retry_config # {}

\* a call with a policy whose num_retries is a number n >= 0
WithRetries(c) ==
    /\ WithPolicy(c)
    /\ Cfg(c).num_retries # {}
    /\ \A n \in Cfg(c).num_retries : n >= 0
RetriesOf(c) == CHOOSE n \in Cfg(c).num_retries : TRUE

\* max(n, 1), the attempt budget the specification gives a policy
Budget(c) == IF RetriesOf(c) >= 1 THEN RetriesOf(c) ELSE 1

Done(c) == pc[c] = "done"
IsResponse(o) == ~o.err

\* status check: the configured set, else the default range 200-302
StatusPasses(c, o) ==
    IF Cfg(c).success_status_codes # {}
    THEN \E S \in Cfg(c).success_status_codes : o.status \in S
    ELSE o.status >= 200 /\ o.status <= 302

\* selector check: passes when no selector is configured
SelectorPasses(c, o) == Cfg(c).success_selector = {} \/ o.match

Successful(c, o) == IsResponse(o) /\ StatusPasses(c, o) /\ SelectorPasses(c, o)
Unsuccessful(c, o) == IsResponse(o) /\ ~Successful(c, o)

C2_AllUnsuccessfulResponses ==
    \A c \in Calls :
        (/\ Done(c)
         /\ WithRetries(c)
         /\ Cfg(c).success_status_codes # {}
         /\ \A i \in 1..Budget(c) :
               IsResponse(transport[c][i]) /\ ~StatusPasses(c, transport[c][i]))
        => attempts[c] = Budget(c)

\* C3: when the budget is exhausted and the last attempt received a
\* response that fails the success criteria, the call returns that response
\* with its status intact; and a call with a policy throws only the
\* transport error of the attempt it made last.
C3_LastResponseReturned ==
    \A c \in Calls :
        (Done(c) /\ WithRetries(c)) =>
            /\ (/\ attempts[c] = Budget(c)
                /\ Unsuccessful(c, transport[c][Budget(c)]))
               => result[c] = Returned(Budget(c), transport[c][Budget(c)])
            /\ result[c].kind = "thrown"
               => /\ result[c].attempt = attempts[c]
                  /\ transport[c][attempts[c]].err

C3_Witness ==
    \E c \in Calls :
        /\ Done(c) /\ WithRetries(c) /\ RetriesOf(c) = 2
        /\ attempts[c] = 2
        /\ transport[c][1].err
        /\ Unsuccessful(c, transport[c][2])
        /\ result[c].kind = "returned" /\ result[c].attempt = 2
        /\ result[c].status = 303

\* C4: if attempts 1..k-1 fail (transport error or unsuccessful response)
\* and attempt k, k <= max(n, 1), receives a response passing every
\* configured check, the finished call has made exactly k attempts and
\* returned attempt k's response.
C4_FirstSuccessReturned ==
    \A c \in Calls :
        (Done(c) /\ WithRetries(c)) =>
            \A k \in 1..Budget(c) :
                (/\ \A i \in 1..(k - 1) : ~Successful(c, transport[c][i])
                 /\ Successful(c, transport[c][k]))
                => /\ attempts[c] = k
                   /\ result[c] = Returned(k, transport[c][k])

\* C5: a call with a policy throws a transport error only when the attempt
\* that raised it was the last of the budget; a transport error on an
\* earlier attempt is followed by another attempt.
C5_ThrowOnlyOnFinalAttempt ==
    \A c \in Calls :
        (WithRetries(c) /\ pc[c] # "idle") =>
            /\ result[c].kind = "thrown" => result[c].attempt = Budget(c)
            /\ Done(c) =>
                 \A i \in 1..attempts[c] :
                    (transport[c][i].err /\ i < Budget(c)) => attempts[c] > i

C5_Witness ==
    \E c \in Calls :
        /\ Done(c) /\ WithRetries(c) /\ RetriesOf(c) = 3
        /\ transport[c][1].err /\ transport[c][2].err
        /\ ~transport[c][3].err
        /\ attempts[c] = 3
        /\ result[c].kind = "returned"

\* C6: with both success_status_codes and success_selector configured, an
\* attempt whose status is in the set but whose body has no match is not
\* returned as a success while attempts remain: the call goes on to retry.
C6_BothChecksMustPass ==
    \A c \in Calls :
        (/\ Done(c)
         /\ WithRetries(c)
         /\ Cfg(c).success_status_codes # {}
         /\ Cfg(c).success_selector # {}
         /\ Budget(c) >= 2
         /\ IsResponse(transport[c][1])
         /\ StatusPasses(c, transport[c][1])
         /\ ~transport[c][1].match)
        => attempts[c] >= 2

\* C7: with success_selector configured, when only the last attempt's body
\* has a match, the call retries through every earlier attempt and returns
\* exactly the last attempt's response.
C7_SelectorOnlyLastMatches ==
    \A c \in Calls :
        (/\ Done(c)
         /\ WithRetries(c)
         /\ Cfg(c).success_selector # {}
         /\ \A i \in 1..(Budget(c) - 1) :
               IsResponse(transport[c][i]) /\ ~transport[c][i].match
         /\ Successful(c, transport[c][Budget(c)]))
        => /\ attempts[c] = Budget(c)
           /\ result[c] = Returned(Budget(c), transport[c][Budget(c)])

\* C8: without success_status_codes (and without a selector) a response
\* whose status is outside 200-302 is retried while attempts remain, and a
\* response whose status is inside 200-302 is returned at once.
C8_DefaultStatusRange ==
    \A c \in Calls :
        (/\ Done(c)
         /\ WithRetries(c)
         /\ Cfg(c).success_status_codes = {}
         /\ Cfg(c).success_selector = {}
         /\ IsResponse(transport[c][1]))
        => /\ (~StatusPasses(c, transport[c][1]) /\ Budget(c) >= 2)
              => attempts[c] >= 2
           /\ StatusPasses(c, transport[c][1])
              => /\ attempts[c] = 1
                 /\ result[c] = Returned(1, transport[c][1])

\* C9: without a retry policy exactly one physical attempt is made and no
\* delay is waited: a response of any status is returned, a transport error
\* is thrown.
C9_NoPolicySingleAttempt ==
    \A c \in Calls :
        (~WithPolicy(c) /\ pc[c] # "idle") =>
            /\ attempts[c] = 1
            /\ sleeps[c] = 0
            /\ Done(c) =>
                 result[c] = IF transport[c][1].err
                             THEN Thrown(1)
                             ELSE Returned(1, transport[c][1])

C9_Witness ==
    \E c \in Calls :
        /\ Done(c) /\ ~WithPolicy(c)
        /\ transport[c][1].err
        /\ result[c] = Thrown(1)
        /\ attempts[c] = 1 /\ sleeps[c] = 0

\* C10: num_retries counts retries after the first attempt: n = 0 gives one
\* attempt, and n >= 1 with every attempt failing gives n + 1 attempts.
C10_RetriesBeyondFirst ==
    \A c \in Calls :
        (Done(c) /\ WithRetries(c)) =>
            /\ RetriesOf(c) = 0 => attempts[c] = 1
            /\ (/\ RetriesOf(c) >= 1
                /\ \A i \in 1..(RetriesOf(c) + 1) : transport[c][i].err)
               => attempts[c] = RetriesOf(c) + 1

\* ------------------------------------------------------- requests, client
Started(c) == pc[c] # "idle"
Sent(c) == 1..Len(requests[c])
HeaderValues(req, name) == {h[2] : h \in {g \in req.init.headers : g[1] = name}}

\* C11: every physical attempt of a call targets {base}/scrape_with_js when
\* js_rendering_options is present and {base}/scrape when it is absent, and
\* all attempts of the call target the same endpoint.
C11_EndpointSelection ==
    \A c \in Calls : \A i \in Sent(c) :
        /\ requests[c][i].input.path =
             IF params[c].js_rendering_options # {}
             THEN "/scrape_with_js" ELSE "/scrape"
        /\ api_url = {requests[c][i].input.base}
        /\ requests[c][i].input = requests[c][1].input

C11_Witness ==
    \E c \in Calls :
        /\ params[c].js_rendering_options # {}
        /\ Len(requests[c]) >= 2
        /\ requests[c][2].input.path = "/scrape_with_js"

\* C12: every physical attempt is a POST with header X-API-Key equal to the
\* client's API key, header Content-Type: application/json unless
\* omit_default_headers is set, and the JSON text of the parameters as body.
C12_RequestShape ==
    \A c \in Calls : \A i \in Sent(c) :
        /\ requests[c][i].init.method = "POST"
        /\ HeaderValues(requests[c][i], "X-API-Key") = {api_key}
        /\ params[c].omit_default_headers = {}
           => HeaderValues(requests[c][i], "Content-Type") = {{"application/json"}}
        /\ requests[c][i].init.body = Stringify(params[c])

\* C13: whether the client was constructed from an API key alone or from a
\* base address and an API key, every request carries the supplied key in
\* X-API-Key and is addressed to the configured base address (a hosted
\* default, not the key, when only a key was given).
SuppliedKey == ctor[Len(ctor)]

C13_ConstructionForms ==
    \A c \in Calls : \A i \in Sent(c) :
        /\ HeaderValues(requests[c][i], "X-API-Key") = {{SuppliedKey}}
        /\ Len(ctor) = 2 => requests[c][i].input.base = ctor[1]
        /\ Len(ctor) = 1 => requests[c][i].input.base # SuppliedKey

\* C14: a call whose url is absent or empty, or whose policy has a negative
\* num_retries, issues no physical attempt and fails.
InvalidInput(c) ==
    \/ params[c].url = {}
    \/ params[c].url = {""}
    \/ /\ WithPolicy(c)
       /\ \E n \in Cfg(c).num_retries : n < 0

C14_ValidationBeforeNetwork ==
    \A c \in Calls :
        (Started(c) /\ InvalidInput(c)) =>
            /\ attempts[c] = 0
            /\ requests[c] = <<>>
            /\ result[c].kind = "thrown"

\* C15: a call that has made k attempts has waited exactly k - 1 delays:
\* nothing is waited after the last attempt.
C15_DelayOnlyBetweenAttempts ==
    \A c \in Calls :
        (Done(c) /\ WithPolicy(c) /\ attempts[c] >= 1)
        => sleeps[c] = attempts[c] - 1

\* C16: a call with a retry policy never finishes without an outcome: it
\* returns a response or it throws.
C16_AlwaysAnOutcome ==
    \A c \in Calls :
        (Done(c) /\ WithPolicy(c)) => result[c].kind \in {"returned", "thrown"}

\* C17: the remaining-attempts counter.
\* The value max(num_retries, 1); not a number when num_retries is missing.
CounterStart(c) ==
    IF Cfg(c).num_retries = {} THEN NaN
    ELSE LET n == CHOOSE m \in Cfg(c).num_retries : TRUE
         IN  Num(IF n >= 1 THEN n ELSE 1)
Minus(x, k) == IF x.nan THEN NaN ELSE Num(x.v - k)

\* physical attempts that have settled
Completed(c) == attempts[c] - inflight[c]

\* loop iterations that have run their finally block
Iterations(c) == IF pc[c] \in {"fetch", "sleep"} THEN attempts[c] - 1 ELSE attempts[c]

\* C17 as stated: at every point the counter is max(num_retries, 1) minus
\* the number of physical attempts completed, and is never below 0.
C17_CounterTracksAttempts ==
    \A c \in Calls :
        (Started(c) /\ WithPolicy(c)) =>
            /\ retriesRemaining[c] = Minus(CounterStart(c), Completed(c))
            /\ retriesRemaining[c].v >= 0

\* C17 amended: the counter is max(num_retries, 1) minus the number of loop
\* iterations finished, one per attempt on every branch, and never below 0;
\* it equals max(num_retries, 1) minus the attempts completed except while
\* the delay after a caught error runs, when it is one more.
C17_CounterTracksIterations ==
    \A c \in Calls :
        (Started(c) /\ WithPolicy(c)) =>
            /\ retriesRemaining[c] = Minus(CounterStart(c), Iterations(c))
            /\ retriesRemaining[c].v >= 0
            /\ pc[c] # "sleep"
               => retriesRemaining[c] = Minus(CounterStart(c), Completed(c))
            /\ pc[c] = "sleep"
               => retriesRemaining[c] = Minus(CounterStart(c), Completed(c) - 1)

C17_Witness ==
    \E c \in Calls :
        /\ Done(c) /\ WithPolicy(c)
        /\ Cfg(c).num_retries = {3}
        /\ attempts[c] = 2
        /\ result[c].kind = "returned"
        /\ retriesRemaining[c] = Num(1)

\* C18: all physical attempts of a call send the identical request (endpoint,
\* method, headers, body), and the call leaves its parameters unchanged.
C18_SameRequestEveryAttempt ==
    /\ [](\A c \in Calls : \A i \in Sent(c) : requests[c][i] = requests[c][1])
    /\ [][\A c \in Calls : Started(c) => params'[c] = params[c]]_vars

C18_Witness ==
    \E c \in Calls :
        /\ Done(c)
        /\ Len(requests[c]) = 3
        /\ requests[c][3] = requests[c][1]
        /\ requests[c][3].init.body = Stringify(params[c])

\* C19: at most one attempt of a call is in flight, and none is in flight
\* while the delay after the previous attempt is still running.
C19_SequentialAttempts ==
    \A c \in Calls :
        /\ inflight[c] <= 1
        /\ timers[c] <= 1
        /\ inflight[c] = 1 => timers[c] = 0
        /\ Completed(c) >= 0

C19_Witness ==
    \E c \in Calls :
        /\ attempts[c] = 3
        /\ inflight[c] = 1
        /\ sleeps[c] = 2
        /\ timers[c] = 0

\* C20: calls running concurrently on one client are independent: whatever
\* the interleaving, a finished call has made the attempts and reached the
\* outcome that its own parameters and its own attempt outcomes give it, and
\* the client's api_url and api_key are as constructed.
OwnBudget(c) == CounterStart(c).v
OwnResponses(c) == {i \in 1..OwnBudget(c) : ~transport[c][i].err}
OwnFirstResponse(c) == CHOOSE i \in OwnResponses(c) : \A j \in OwnResponses(c) : i <= j

OwnAttempts(c) ==
    IF ~WithPolicy(c) THEN 1
    ELSE IF CounterStart(c).nan THEN 0
    ELSE IF OwnResponses(c) = {} THEN OwnBudget(c)
    ELSE OwnFirstResponse(c)

OwnResult(c) ==
    IF WithPolicy(c) /\ CounterStart(c).nan THEN Undefined
    ELSE IF transport[c][OwnAttempts(c)].err THEN Thrown(OwnAttempts(c))
    ELSE Returned(OwnAttempts(c), transport[c][OwnAttempts(c)])

C20_IndependentCalls ==
    /\ \A c \in Calls :
          Done(c) => /\ attempts[c] = OwnAttempts(c)
                     /\ result[c] = OwnResult(c)
    /\ api_url = {ctor[1]}
    /\ api_key = IF Len(ctor) >= 2 THEN {ctor[2]} ELSE {}

C20_Witness ==
    \E c, d \in Calls :
        /\ c # d
        /\ Done(c) /\ WithPolicy(c) /\ attempts[c] = 2
        /\ result[c].kind = "thrown"
        /\ WithPolicy(d) /\ Cfg(d).num_retries = {1}
        /\ pc[d] = "sleep"

\* C21: when every attempt and every delay eventually completes, a call
\* whose num_retries is a number (or that has no policy) eventually finishes
\* by returning a response or throwing, and never makes more than
\* max(num_retries, 1) physical attempts (one without a policy).
FiniteRetries(c) == ~WithPolicy(c) \/ ~CounterStart(c).nan
AttemptLimit(c) == IF WithPolicy(c) THEN CounterStart(c).v ELSE 1
Finished(c) == Done(c) /\ result[c].kind \in {"returned", "thrown"}

C21_Termination ==
    /\ \A c \in Calls : (Started(c) /\ FiniteRetries(c)) ~> Finished(c)
    /\ [](\A c \in Calls :
            (Started(c) /\ FiniteRetries(c)) => attempts[c] <= AttemptLimit(c))

C21_Witness ==
    \E c \in Calls :
        /\ Finished(c) /\ WithPolicy(c)
        /\ AttemptLimit(c) = 3
        /\ attempts[c] = 3
        /\ sleeps[c] = 3 /\ timers[c] = 0 /\ inflight[c] = 0

====
